---- MODULE Spec2Model ----
(***************************************************************************)
(* A model of clocpy (src/clocpy.py): the language registry, the file      *)
(* classifier, the line classifier, the aggregation loop and the report.   *)
(*                                                                         *)
(* A Python str is a sequence of one-character strings.  A value that the  *)
(* code passes either as a str or as a tuple of str is tagged with its     *)
(* kind, because tuple(), str.startswith and str.endswith treat the two    *)
(* differently.                                                            *)
(***************************************************************************)
EXTENDS Naturals, Sequences, FiniteSets

VARIABLES
    root_path,                \* the argument: what it is (kind) and the files found at it (walk)
    pc,                       \* position in clocpy()
    files,                    \* the sequence the for loop of line 87 iterates
    idx,                      \* index in files of the file of the current iteration
    ftype,                    \* index in SUPPORTED_LANGUAGES of the current file's language, 0 = None
    contents,                 \* the stripped lines of the current file (line 98)
    li,                       \* index in contents of the next line to classify
    language_analysis_info,   \* the dict: its <<language, AnalysisInfo>> items in insertion order
    sorted_analysis_info,     \* line 115
    si,                       \* index in sorted_analysis_info of the next row
    table,                    \* rows added to individual_table
    totals,                   \* total_files, total_blanks, total_comments, total_code
    console,                  \* what Console().print has written
    run,                      \* number of the invocation of the command
    first_result              \* the dict the first invocation ended with

vars == <<root_path, pc, files, idx, ftype, contents, li, language_analysis_info,
          sorted_analysis_info, si, table, totals, console, run, first_result>>

-----------------------------------------------------------------------------
(* Bounds of the model *)

MaxFiles == 3
MaxLineLen == 3
MaxNameLen == 4

-----------------------------------------------------------------------------
(* Python values *)

Str(s) == [kind |-> "str", val |-> s]
Tup(t) == [kind |-> "tuple", val |-> t]

\* tuple(x): a tuple stays as it is, a str becomes the tuple of its characters
PyTuple(x) ==
    IF x.kind = "str" THEN [i \in 1..Len(x.val) |-> <<x.val[i]>>] ELSE x.val

\* s.startswith(p) for a str p
StartsWithStr(s, p) ==
    /\ Len(p) <= Len(s)
    /\ SubSeq(s, 1, Len(p)) = p

\* s.endswith(p) for a str p
EndsWithStr(s, p) ==
    /\ Len(p) <= Len(s)
    /\ SubSeq(s, Len(s) - Len(p) + 1, Len(s)) = p

\* s.startswith(x): x is a str, or a tuple of str any of which may match
startswith(s, x) ==
    IF x.kind = "str" THEN StartsWithStr(s, x.val)
    ELSE \E i \in 1..Len(x.val) : StartsWithStr(s, x.val[i])

\* s.endswith(x): x is a str, or a tuple of str any of which may match
endswith(s, x) ==
    IF x.kind = "str" THEN EndsWithStr(s, x.val)
    ELSE \E i \in 1..Len(x.val) : EndsWithStr(s, x.val[i])

Whitespace == {" ", "\t"}

RECURSIVE lstrip(_)
lstrip(s) ==
    IF s # <<>> /\ Head(s) \in Whitespace THEN lstrip(Tail(s)) ELSE s

RECURSIVE rstrip(_)
rstrip(s) ==
    IF s # <<>> /\ s[Len(s)] \in Whitespace THEN rstrip(SubSeq(s, 1, Len(s) - 1)) ELSE s

\* line.strip()
strip(s) == rstrip(lstrip(s))

\* text.splitlines(): the lines without their terminators; a terminator at the
\* end of the text opens no further line, and the empty text has no line
RECURSIVE SplitFrom(_, _, _)
SplitFrom(text, i, cur) ==
    IF i > Len(text) THEN (IF cur = <<>> THEN <<>> ELSE <<cur>>)
    ELSE IF text[i] = "\n" THEN <<cur>> \o SplitFrom(text, i + 1, <<>>)
    ELSE SplitFrom(text, i + 1, Append(cur, text[i]))

splitlines(text) == SplitFrom(text, 1, <<>>)

\* name.rfind(".") + 1: the place of the last dot of name[1..i], 0 when it has none
RECURSIVE RFindDot(_, _)
RFindDot(name, i) ==
    IF i = 0 THEN 0
    ELSE IF name[i] = "." THEN i
    ELSE RFindDot(name, i - 1)

\* Path.suffix of a path whose final component is name: the part from the last
\* dot on, unless that dot is the first or the last character of the name
PathSuffix(name) ==
    LET d == RFindDot(name, Len(name))    \* 1-based place of the last dot, 0 if none
    IN  IF d > 1 /\ d < Len(name) THEN SubSeq(name, d, Len(name)) ELSE <<>>

-----------------------------------------------------------------------------
(* The registry *)

Language(name, file_suffix, comment_line_prefixes, multiline_comment_sequences) ==
    [name |-> name,
     file_suffix |-> file_suffix,
     comment_line_prefixes |-> comment_line_prefixes,
     multiline_comment_sequences |-> multiline_comment_sequences]

\* Language.get_factory(defaults...)(name, file_suffix) with the two optional
\* arguments left at their default ()
language_factory(default_comment_line_prefixes, default_multiline_comment_sequences, name, file_suffix) ==
    Language(name,
             file_suffix,
             Tup(PyTuple(default_comment_line_prefixes) \o PyTuple(Tup(<<>>))),
             Tup(PyTuple(default_multiline_comment_sequences) \o PyTuple(Tup(<<>>))))

CLIKE(name, file_suffix) ==
    language_factory(Str(<<"/", "/">>), Tup(<<<<"/", "*">>, <<"*", "/">>>>), name, file_suffix)

SUPPORTED_LANGUAGES ==
    << CLIKE("C", Str(<<".", "c">>)),
       CLIKE("C++", Tup(<< <<".", "c", "+", "+">>, <<".", "c", "p", "p">> >>)),
       CLIKE("Javascript", Str(<<".", "j", "s">>)),
       CLIKE("C#", Tup(<< <<".", "c", "s">>, <<".", "c", "s", "x">> >>)),
       CLIKE("Java", Str(<<".", "j", "a", "v", "a">>)),
       CLIKE("Golang", Str(<<".", "g", "o">>)),
       Language("Python",
                Tup(<< <<".", "p", "y">>, <<".", "p", "y", "w">> >>),
                Str(<<"#">>),
                Tup(<< << <<"\"", "\"", "\"">>, <<"\"", "\"", "\"">> >> >>)) >>

\* A slip of line 71: the file's name, not its suffix, is matched.
RECURSIVE FileTypeFromName(_, _, _)
FileTypeFromName(name, supported_languages, i) ==
    IF i > Len(supported_languages) THEN 0
    ELSE IF endswith(name, supported_languages[i].file_suffix) THEN i
    ELSE FileTypeFromName(name, supported_languages, i + 1)

\* figure_out_file_type: the index of the first language of the sequence one of
\* whose suffixes the file's suffix ends with; 0 (None) when the loop ends
RECURSIVE FileTypeFrom(_, _, _)
FileTypeFrom(name, supported_languages, i) ==
    IF i > Len(supported_languages) THEN 0
    ELSE IF endswith(PathSuffix(name), supported_languages[i].file_suffix) THEN i
    ELSE FileTypeFrom(name, supported_languages, i + 1)

figure_out_file_type(name, supported_languages) ==
    FileTypeFrom(name, supported_languages, 1)

-----------------------------------------------------------------------------
(* The counters *)

AnalysisInfo == [files |-> 0, blank |-> 0, comment |-> 0, code |-> 0]

\* The dict is the sequence of its <<key, value>> items in insertion order.
DictHas(d, k) == \E i \in 1..Len(d) : d[i][1] = k

DictGet(d, k) == d[CHOOSE i \in 1..Len(d) : d[i][1] = k][2]

\* d[k] = v: a new key goes to the end, an old key keeps its place
DictSet(d, k, v) ==
    IF DictHas(d, k) THEN [i \in 1..Len(d) |-> IF d[i][1] = k THEN <<k, v>> ELSE d[i]]
    ELSE Append(d, <<k, v>>)

\* lines 91-95: the language's AnalysisInfo, a fresh one on first encounter
LookupOrCreate(d, k) == IF DictHas(d, k) THEN DictGet(d, k) ELSE AnalysisInfo

\* A slip of line 96: the counter is set, not raised.
IncFilesAssigned(analysis) == [analysis EXCEPT !.files = 1]

\* analysis.files += 1
IncFiles(analysis) == [analysis EXCEPT !.files = @ + 1]

\* A slip of lines 100-105: the test for a comment is an "if" of its own, so an
\* empty line falls through to the else branch as well.
CountOneLineFallThrough(analysis, line, lang) ==
    LET a == IF line = <<>> THEN [analysis EXCEPT !.blank = @ + 1] ELSE analysis
    IN  IF startswith(line, lang.comment_line_prefixes)
        THEN [a EXCEPT !.comment = @ + 1]
        ELSE [a EXCEPT !.code = @ + 1]

\* lines 100-105: one stripped line counted on the language's AnalysisInfo
CountOneLine(analysis, line, lang) ==
    IF line = <<>> THEN [analysis EXCEPT !.blank = @ + 1]
    ELSE IF startswith(line, lang.comment_line_prefixes)
         THEN [analysis EXCEPT !.comment = @ + 1]
    ELSE [analysis EXCEPT !.code = @ + 1]

\* file.read_text().splitlines() with every line stripped
ReadContents(file) ==
    LET lines == splitlines(file.text)
    IN  [i \in 1..Len(lines) |-> strip(lines[i])]

-----------------------------------------------------------------------------
(* File discovery *)

\* itertools.chain.from_iterable over the files of every directory of the walk
RECURSIVE Chain(_)
Chain(walk) == IF walk = <<>> THEN <<>> ELSE Head(walk) \o Chain(Tail(walk))

iter_all_files(root) == Chain(root.walk)

-----------------------------------------------------------------------------
(* The report *)

\* A slip of line 115: an ascending sort turned round, which turns round the
\* items of equal code too.
RECURSIVE InsertDescTiesReversed(_, _)
InsertDescTiesReversed(sorted, item) ==
    IF sorted = <<>> THEN <<item>>
    ELSE IF Head(sorted)[2].code > item[2].code
         THEN <<Head(sorted)>> \o InsertDescTiesReversed(Tail(sorted), item)
    ELSE <<item>> \o sorted

\* one item placed behind every item whose code count is not smaller: the
\* stable descending order of sorted(..., reverse=True)
RECURSIVE InsertDesc(_, _)
InsertDesc(sorted, item) ==
    IF sorted = <<>> THEN <<item>>
    ELSE IF Head(sorted)[2].code >= item[2].code
         THEN <<Head(sorted)>> \o InsertDesc(Tail(sorted), item)
    ELSE <<item>> \o sorted

RECURSIVE SortedByCodeDesc(_)
SortedByCodeDesc(items) ==
    IF items = <<>> THEN <<>>
    ELSE InsertDesc(SortedByCodeDesc(SubSeq(items, 1, Len(items) - 1)), items[Len(items)])

Row(name, a) ==
    [name |-> name, files |-> a.files, blank |-> a.blank, comment |-> a.comment, code |-> a.code]

\* A slip of line 125: the comment count is added to the code total.
AddTotalsSlip(t, analysis) ==
    [files |-> t.files + analysis.files,
     blank |-> t.blank + analysis.blank,
     comment |-> t.comment + analysis.comment,
     code |-> t.code + analysis.comment]

\* lines 122-125
AddTotals(t, analysis) ==
    [files |-> t.files + analysis.files,
     blank |-> t.blank + analysis.blank,
     comment |-> t.comment + analysis.comment,
     code |-> t.code + analysis.code]

-----------------------------------------------------------------------------
(* The command *)

File(name, text, readable) == [name |-> name, text |-> text, readable |-> readable]

NoTotals == [files |-> 0, blank |-> 0, comment |-> 0, code |-> 0]

CurrentFile == files[idx]

CurrentLanguage == SUPPORTED_LANGUAGES[ftype]

\* A slip of lines 82-83: a root that is neither is taken for an empty input.
StartWithoutCheck ==
    /\ pc = "start"
    /\ IF root_path.kind = "dir"
       THEN files' = iter_all_files(root_path)
       ELSE IF root_path.kind = "file"
       THEN files' = Head(root_path.walk)
       ELSE files' = <<>>
    /\ pc' = "loop"
    /\ language_analysis_info' = <<>>
    /\ idx' = 1
    /\ UNCHANGED <<root_path, ftype, contents, li, sorted_analysis_info, si, table,
                   totals, console, run, first_result>>

\* A slip of line 85: the dict outlives the invocation (a module-level dict).
StartWithOldDict ==
    /\ pc = "start"
    /\ IF root_path.kind = "dir"
       THEN /\ files' = iter_all_files(root_path)
            /\ pc' = "loop"
       ELSE IF root_path.kind = "file"
       THEN /\ files' = Head(root_path.walk)
            /\ pc' = "loop"
       ELSE /\ files' = <<>>
            /\ pc' = "invalid"
    /\ idx' = 1
    /\ UNCHANGED <<root_path, ftype, contents, li, language_analysis_info,
                   sorted_analysis_info, si, table, totals, console, run, first_result>>

\* lines 78-85: the root is told apart, the dict is created empty
Start ==
    /\ pc = "start"
    /\ IF root_path.kind = "dir"
       THEN /\ files' = iter_all_files(root_path)
            /\ pc' = "loop"
       ELSE IF root_path.kind = "file"
       THEN /\ files' = Head(root_path.walk)
            /\ pc' = "loop"
       ELSE /\ files' = <<>>
            /\ pc' = "invalid"
    /\ language_analysis_info' = <<>>
    /\ idx' = 1
    /\ UNCHANGED <<root_path, ftype, contents, li, sorted_analysis_info, si, table,
                   totals, console, run, first_result>>

\* A slip of lines 88-98: the text is read before the language is looked at.
SkipFileAfterRead ==
    /\ pc = "loop"
    /\ idx <= Len(files)
    /\ figure_out_file_type(CurrentFile.name, SUPPORTED_LANGUAGES) = 0
    /\ ftype' = 0
    /\ IF CurrentFile.readable
       THEN idx' = idx + 1 /\ pc' = pc
       ELSE idx' = idx /\ pc' = "failed"
    /\ UNCHANGED <<root_path, files, contents, li, language_analysis_info,
                   sorted_analysis_info, si, table, totals, console, run, first_result>>

\* lines 88-90: a file of no supported language is passed over
SkipFile ==
    /\ pc = "loop"
    /\ idx <= Len(files)
    /\ figure_out_file_type(CurrentFile.name, SUPPORTED_LANGUAGES) = 0
    /\ ftype' = 0
    /\ idx' = idx + 1
    /\ UNCHANGED <<root_path, pc, files, contents, li, language_analysis_info,
                   sorted_analysis_info, si, table, totals, console, run, first_result>>

\* lines 88-98: the file's language is counted one file more and its text is read
OpenFile ==
    /\ pc = "loop"
    /\ idx <= Len(files)
    /\ LET t == figure_out_file_type(CurrentFile.name, SUPPORTED_LANGUAGES)
       IN  /\ t # 0
           /\ CurrentFile.readable
           /\ ftype' = t
           /\ language_analysis_info' =
                  DictSet(language_analysis_info, t,
                          IncFiles(LookupOrCreate(language_analysis_info, t)))
    /\ contents' = ReadContents(CurrentFile)
    /\ li' = 1
    /\ pc' = "lines"
    /\ UNCHANGED <<root_path, files, idx, sorted_analysis_info, si, table, totals,
                   console, run, first_result>>

\* A slip of line 98: the exception is caught and the file passed over.
ReadFailSwallowed ==
    /\ pc = "loop"
    /\ idx <= Len(files)
    /\ LET t == figure_out_file_type(CurrentFile.name, SUPPORTED_LANGUAGES)
       IN  /\ t # 0
           /\ ~CurrentFile.readable
           /\ ftype' = t
           /\ language_analysis_info' =
                  DictSet(language_analysis_info, t,
                          IncFiles(LookupOrCreate(language_analysis_info, t)))
    /\ idx' = idx + 1
    /\ UNCHANGED <<root_path, pc, files, contents, li, sorted_analysis_info, si, table,
                   totals, console, run, first_result>>

\* lines 88-98 when read_text raises: the exception leaves the command
ReadFail ==
    /\ pc = "loop"
    /\ idx <= Len(files)
    /\ LET t == figure_out_file_type(CurrentFile.name, SUPPORTED_LANGUAGES)
       IN  /\ t # 0
           /\ ~CurrentFile.readable
           /\ ftype' = t
           /\ language_analysis_info' =
                  DictSet(language_analysis_info, t,
                          IncFiles(LookupOrCreate(language_analysis_info, t)))
    /\ pc' = "failed"
    /\ UNCHANGED <<root_path, files, idx, contents, li, sorted_analysis_info, si, table,
                   totals, console, run, first_result>>

\* lines 99-105: one line of the file is counted
CountLine ==
    /\ pc = "lines"
    /\ li <= Len(contents)
    /\ language_analysis_info' =
           DictSet(language_analysis_info, ftype,
                   CountOneLine(DictGet(language_analysis_info, ftype),
                                contents[li], CurrentLanguage))
    /\ li' = li + 1
    /\ UNCHANGED <<root_path, pc, files, idx, ftype, contents, sorted_analysis_info, si,
                   table, totals, console, run, first_result>>

\* the loop of line 99 is over: on to the next file
EndFile ==
    /\ pc = "lines"
    /\ li > Len(contents)
    /\ idx' = idx + 1
    /\ pc' = "loop"
    /\ UNCHANGED <<root_path, files, ftype, contents, li, language_analysis_info,
                   sorted_analysis_info, si, table, totals, console, run, first_result>>

\* lines 106-115: the loop of line 87 is over; the table, the totals, the order
BuildReport ==
    /\ pc = "loop"
    /\ idx > Len(files)
    /\ table' = <<>>
    /\ totals' = NoTotals
    /\ sorted_analysis_info' = SortedByCodeDesc(language_analysis_info)
    /\ si' = 1
    /\ pc' = "rows"
    /\ UNCHANGED <<root_path, files, idx, ftype, contents, li, language_analysis_info,
                   console, run, first_result>>

\* lines 116-125: one language's row
AddRow ==
    /\ pc = "rows"
    /\ si <= Len(sorted_analysis_info)
    /\ LET item == sorted_analysis_info[si]
       IN  /\ table' = Append(table, Row(SUPPORTED_LANGUAGES[item[1]].name, item[2]))
           /\ totals' = AddTotals(totals, item[2])
    /\ si' = si + 1
    /\ UNCHANGED <<root_path, pc, files, idx, ftype, contents, li, language_analysis_info,
                   sorted_analysis_info, console, run, first_result>>

\* lines 127-128: the SUM row, and the table goes to the console
PrintTable ==
    /\ pc = "rows"
    /\ si > Len(sorted_analysis_info)
    /\ table' = Append(table, Row("SUM", totals))
    /\ console' = table'
    /\ pc' = "done"
    /\ UNCHANGED <<root_path, files, idx, ftype, contents, li, language_analysis_info,
                   sorted_analysis_info, si, totals, run, first_result>>

\* the sequences that hold the elements of s in some order
Reorderings(s) ==
    LET n == Len(s)
    IN  { [i \in 1..n |-> s[p[i]]] :
            p \in { q \in [1..n -> 1..n] : \A i, j \in 1..n : q[i] = q[j] => i = j } }

\* the dict as a mapping: the set of its items, whatever their order
AsMapping(d) == { d[i] : i \in 1..Len(d) }

\* lines 151-152 once more: the command is invoked again on the same files, which
\* the walk may yield in another order
Rerun ==
    /\ pc = "done"
    /\ run = 1
    /\ run' = 2
    /\ first_result' = language_analysis_info
    /\ \E p \in Reorderings(Chain(root_path.walk)) :
           root_path' = [root_path EXCEPT !.walk = <<p>>]
    /\ pc' = "start"
    /\ console' = <<>>
    /\ UNCHANGED <<files, idx, ftype, contents, li, language_analysis_info,
                   sorted_analysis_info, si, table, totals>>

-----------------------------------------------------------------------------
(* The runs checked *)

Sequences(S, n) == UNION { [1..m -> S] : m \in 0..n }

InitLocals ==
    /\ pc = "start"
    /\ files = <<>>
    /\ idx = 0
    /\ ftype = 0
    /\ contents = <<>>
    /\ li = 0
    /\ language_analysis_info = <<>>
    /\ sorted_analysis_info = <<>>
    /\ si = 0
    /\ table = <<>>
    /\ totals = NoTotals
    /\ console = <<>>
    /\ run = 1
    /\ first_result = <<>>

\* The files of the runs: a C file of one code, one blank and one comment line, a
\* Python file of one comment and two code lines, a Golang file of one code line,
\* a C++ file of 0 bytes, a C# file of two code lines, a readable file of no
\* language, and two files that cannot be read, one of them of no language.
SomeFiles ==
    { File(<<"a", ".", "c">>, <<"x", "\n", " ", "\n", "/", "/">>, TRUE),
      File(<<"a", ".", "p", "y">>, <<"#", "\n", "x", "\n", "x", "\n">>, TRUE),
      File(<<"a", ".", "g", "o">>, <<"x">>, TRUE),
      File(<<"a", ".", "c", "p", "p">>, <<>>, TRUE),
      File(<<"b", ".", "c", "s", "x">>, <<"x", "\n", "/", "*">>, TRUE),
      File(<<"R", "E", "A", "D", "M", "E">>, <<"x", "\n">>, TRUE),
      File(<<"a", ".", "t", "x", "t">>, <<>>, FALSE),
      File(<<"a", ".", "j", "s">>, <<>>, FALSE) }

\* A root that does not exist, a root that is one file, a root that is a
\* directory with one directory below it.
Init ==
    /\ InitLocals
    /\ \/ root_path = [kind |-> "none", walk |-> <<>>]
       \/ \E f \in SomeFiles : root_path = [kind |-> "file", walk |-> << <<f>> >>]
       \/ \E fs \in Sequences(SomeFiles, MaxFiles) : \E k \in 0..Len(fs) :
              root_path = [kind |-> "dir",
                           walk |-> << SubSeq(fs, 1, k), SubSeq(fs, k + 1, Len(fs)) >>]

Next ==
    \/ Start
    \/ SkipFile
    \/ OpenFile
    \/ ReadFail
    \/ CountLine
    \/ EndFile
    \/ BuildReport
    \/ AddRow
    \/ PrintTable
    \/ Rerun

Spec == Init /\ [][Next]_vars

-----------------------------------------------------------------------------
(* One file of one line, for the line classifier *)

LineChars == {"/", "*", "#", " ", "x"}

LanguageFileNames ==
    << <<"a", ".", "c">>, <<"a", ".", "c", "p", "p">>, <<"a", ".", "j", "s">>,
       <<"a", ".", "c", "s">>, <<"a", ".", "j", "a", "v", "a">>, <<"a", ".", "g", "o">>,
       <<"a", ".", "p", "y">> >>

InitClassify ==
    /\ InitLocals
    /\ \E l \in 1..Len(LanguageFileNames) : \E line \in Sequences(LineChars, MaxLineLen) :
           root_path = [kind |-> "file",
                        walk |-> << <<File(LanguageFileNames[l], line, TRUE)>> >>]

NextClassify ==
    \/ Start
    \/ OpenFile
    \/ CountLine
    \/ EndFile
    \/ BuildReport
    \/ AddRow
    \/ PrintTable

SpecClassify == InitClassify /\ [][NextClassify]_vars

-----------------------------------------------------------------------------
(* One file of any short name, for the file classifier *)

NameChars == {".", "c", "s", "x", "p", "y", "j"}

LongNames ==
    { <<"a", ".", "c", "+", "+">>, <<"a", ".", "c", "p", "p">>, <<"a", ".", "c", "s", "x">>,
      <<"a", ".", "p", "y", "w">>, <<"a", ".", "j", "a", "v", "a">>, <<"a", ".", "g", "o">>,
      <<"a", ".", "c", "p", "p", ".", "g", "o">>, <<".", "j", "a", "v", "a">>,
      <<"a", ".", "j", "a", "v", "a", "c">>, <<"a", ".", "x", "g", "o">>,
      <<"a", ".", "g", "o", ".">>, <<"j", "a", "v", "a">> }

InitResolve ==
    /\ InitLocals
    /\ \E name \in Sequences(NameChars, MaxNameLen) \cup LongNames :
           root_path = [kind |-> "file", walk |-> << <<File(name, <<"x">>, TRUE)>> >>]

NextResolve ==
    \/ Start
    \/ SkipFile
    \/ OpenFile
    \/ CountLine
    \/ EndFile
    \/ BuildReport
    \/ AddRow
    \/ PrintTable

SpecResolve == InitResolve /\ [][NextResolve]_vars

-----------------------------------------------------------------------------
(* What the claims speak of *)

Min(S) == CHOOSE m \in S : \A n \in S : m <= n

\* the index of the language the file at place i of the input resolves to, 0 for none
TypeOf(i) == figure_out_file_type(files[i].name, SUPPORTED_LANGUAGES)

\* the same for the places 1..n of the input at once
RECURSIVE TypesUpTo(_)
TypesUpTo(n) == IF n = 0 THEN <<>> ELSE Append(TypesUpTo(n - 1), TypeOf(n))

TypesOfFiles == TypesUpTo(Len(files))

\* the input places whose file resolves to language l, types being TypesOfFiles
PlacesIn(types, l) == { i \in 1..Len(files) : types[i] = l }

Languages == 1..Len(SUPPORTED_LANGUAGES)

\* the counters of language l, all 0 while the dict has no entry for it
CountersOf(l) ==
    IF DictHas(language_analysis_info, l) THEN DictGet(language_analysis_info, l)
    ELSE AnalysisInfo

LinesOfFile(i) == Len(splitlines(files[i].text))

\* the number of lines of the files at the places S of the input
RECURSIVE LinesOfFiles(_)
LinesOfFiles(S) ==
    IF S = {} THEN 0
    ELSE LET i == CHOOSE j \in S : TRUE IN LinesOfFile(i) + LinesOfFiles(S \ {i})

\* the lines read so far from the files of language l: those of its files the loop
\* is through with, and those counted of the file it is at
LinesReadSoFar(types, l) ==
    LinesOfFiles({ i \in PlacesIn(types, l) : i < idx })
      + (IF pc = "lines" /\ ftype = l THEN li - 1 ELSE 0)

\* the language rows of the printed table: all but the last row
LanguageRows == SubSeq(console, 1, Len(console) - 1)

\* the place in the input of the first file of the language named name
FirstPlaceOf(name) ==
    Min({ i \in 1..Len(files) : TypeOf(i) # 0 /\ SUPPORTED_LANGUAGES[TypeOf(i)].name = name })

-----------------------------------------------------------------------------
(* C1: in a file of a C-like language a trimmed line counts as comment exactly  *)
(* when it is non-empty and starts with the two characters //, and as code      *)
(* exactly when it is non-empty and does not; for Python the prefix is #.       *)
(* Stated of a file of one line, once the command is done.                      *)

ClaimedPrefix(l) ==
    IF SUPPORTED_LANGUAGES[l].name = "Python" THEN <<"#">> ELSE <<"/", "/">>

C1_CommentIffPrefix ==
    (pc = "done" /\ Len(files) = 1 /\ LinesOfFile(1) = 1) =>
        LET line == strip(splitlines(files[1].text)[1])
            l == TypeOf(1)
            isComment == line # <<>> /\ StartsWithStr(line, ClaimedPrefix(l))
            isCode == line # <<>> /\ ~StartsWithStr(line, ClaimedPrefix(l))
        IN  /\ CountersOf(l).comment = (IF isComment THEN 1 ELSE 0)
            /\ CountersOf(l).code = (IF isCode THEN 1 ELSE 0)
            /\ CountersOf(l).blank = (IF line = <<>> THEN 1 ELSE 0)

-----------------------------------------------------------------------------
(* C2: in every state, for each language, blank + comment + code equals the     *)
(* number of lines read so far from the files attributed to that language.      *)

C2_SumLaw ==
    LET types == TypesOfFiles
    IN  \A l \in Languages :
            LET a == CountersOf(l)
            IN  a.blank + a.comment + a.code = LinesReadSoFar(types, l)

C2_Witness ==
    /\ pc = "lines"
    /\ idx = 2
    /\ li = 3
    /\ Len(contents) = 3
    /\ TypeOf(1) = TypeOf(2)

-----------------------------------------------------------------------------
(* C3: after a run with no read error the files counter of every language is    *)
(* the number of input paths that resolve to it, whatever their content; a      *)
(* language of 0-byte files only has an entry with blank = comment = code = 0;  *)
(* a language no path resolves to has no entry; every entry has files >= 1.     *)

C3_FilesCounter ==
    /\ \A i \in 1..Len(language_analysis_info) : language_analysis_info[i][2].files >= 1
    /\ pc \in {"rows", "done"} =>
         LET types == TypesOfFiles
         IN  \A l \in Languages :
                LET places == PlacesIn(types, l)
                    a == CountersOf(l)
                IN  /\ DictHas(language_analysis_info, l) <=> places # {}
                    /\ a.files = Cardinality(places)
                    /\ (\A i \in places : files[i].text = <<>>) =>
                           (a.blank = 0 /\ a.comment = 0 /\ a.code = 0)

C3_Witness ==
    /\ pc = "done"
    /\ Len(files) = 3
    /\ \E i \in 1..3 : TypeOf(i) = 0
    /\ \E l \in Languages :
          /\ CountersOf(l).files = 2
          /\ \A i \in PlacesIn(TypesOfFiles, l) : files[i].text = <<>>

-----------------------------------------------------------------------------
(* C4: the language rows of the report are in non-increasing order of code, and *)
(* two languages of equal code are in the order of their first files in the     *)
(* input sequence.                                                              *)

C4_RowOrder ==
    pc = "done" =>
        \A i, j \in 1..Len(LanguageRows) :
            i < j =>
                /\ LanguageRows[i].code >= LanguageRows[j].code
                /\ LanguageRows[i].code = LanguageRows[j].code =>
                       FirstPlaceOf(LanguageRows[i].name) < FirstPlaceOf(LanguageRows[j].name)

C4_Witness ==
    /\ pc = "done"
    /\ Len(LanguageRows) = 3
    /\ LanguageRows[1].code > LanguageRows[2].code
    /\ LanguageRows[2].code = LanguageRows[3].code
    /\ FirstPlaceOf(LanguageRows[1].name) > FirstPlaceOf(LanguageRows[3].name)

-----------------------------------------------------------------------------
(* C5: the report ends with exactly one SUM row, after all language rows, whose *)
(* four values are the sums of the language rows' values; it is there, all 0,   *)
(* when no input file is recognized.                                            *)

\* the sum over the rows of the column named field
RECURSIVE SumRows(_, _)
SumRows(rows, field) ==
    IF rows = <<>> THEN 0 ELSE Head(rows)[field] + SumRows(Tail(rows), field)

C5_SumRow ==
    pc = "done" =>
        /\ Len(console) = Len(language_analysis_info) + 1
        /\ console[Len(console)].name = "SUM"
        /\ \A i \in 1..Len(LanguageRows) : LanguageRows[i].name # "SUM"
        /\ console[Len(console)].files = SumRows(LanguageRows, "files")
        /\ console[Len(console)].blank = SumRows(LanguageRows, "blank")
        /\ console[Len(console)].comment = SumRows(LanguageRows, "comment")
        /\ console[Len(console)].code = SumRows(LanguageRows, "code")
        /\ (\A i \in 1..Len(files) : TypeOf(i) = 0) =>
               console = << Row("SUM", NoTotals) >>

C5_Witness ==
    /\ pc = "done"
    /\ Len(LanguageRows) = 2
    /\ LanguageRows[1].comment = 1
    /\ LanguageRows[2].comment = 1
    /\ console[3].code = 3

-----------------------------------------------------------------------------
(* C6: when reading a file fails the run halts at that file: no later file is   *)
(* read and no row is emitted, neither a language's nor the SUM row.            *)

\* the input places of the files that have a language and cannot be read
Unreadable == { i \in 1..Len(files) : ~files[i].readable /\ TypeOf(i) # 0 }

C6_HaltOnReadFailure ==
    Unreadable # {} =>
        LET b == Min(Unreadable)
        IN  /\ idx <= b
            /\ pc \in {"loop", "lines", "failed"}
            /\ pc = "failed" => idx = b
            /\ idx = b => pc \in {"loop", "failed"}
            /\ table = <<>>
            /\ console = <<>>

C6_Witness ==
    /\ pc = "failed"
    /\ idx = 2
    /\ Len(files) = 3
    /\ TypeOf(3) # 0
    /\ files[3].readable
    /\ CountersOf(TypeOf(1)).code >= 1

-----------------------------------------------------------------------------
(* C7: a root that is neither a directory nor a file fails the command before   *)
(* any file is discovered or read, before any counter is created and without a  *)
(* report; a directory's files, all of them, are the input; a file is the       *)
(* whole input.                                                                 *)

\* how often file f is among the files of the directories of the walk
RECURSIVE TimesInWalk(_, _)
TimesInWalk(f, walk) ==
    IF walk = <<>> THEN 0
    ELSE Cardinality({ j \in 1..Len(Head(walk)) : Head(walk)[j] = f })
           + TimesInWalk(f, Tail(walk))

C7_Root ==
    /\ root_path.kind = "none" =>
          /\ pc \in {"start", "invalid"}
          /\ files = <<>>
          /\ language_analysis_info = <<>>
          /\ contents = <<>>
          /\ table = <<>>
          /\ console = <<>>
    /\ (root_path.kind = "file" /\ pc # "start") => files = root_path.walk[1]
    /\ (root_path.kind = "dir" /\ pc # "start") =>
          /\ \A d \in 1..Len(root_path.walk) : \A j \in 1..Len(root_path.walk[d]) :
                Cardinality({ i \in 1..Len(files) : files[i] = root_path.walk[d][j] })
                    = TimesInWalk(root_path.walk[d][j], root_path.walk)
          /\ \A i \in 1..Len(files) : TimesInWalk(files[i], root_path.walk) > 0

C7_Witness ==
    /\ pc = "invalid"
    /\ root_path.kind = "none"

-----------------------------------------------------------------------------
(* C9: the final counters of a run with no read error depend only on the files  *)
(* and their contents: a second run over the same files in any order starts     *)
(* from empty counters and ends with the mapping the first run ended with.      *)

C9_OrderAndRerun ==
    run = 2 =>
        /\ (pc = "loop" /\ idx = 1) => language_analysis_info = <<>>
        /\ pc = "done" => AsMapping(language_analysis_info) = AsMapping(first_result)

C9_Witness ==
    /\ run = 2
    /\ pc = "done"
    /\ Len(language_analysis_info) = 3
    /\ language_analysis_info # first_result
    /\ \E l \in Languages : CountersOf(l).files = 1 /\ CountersOf(l).code = 2

-----------------------------------------------------------------------------
(* C10: a file of no language is never read: one that cannot be read fails no   *)
(* run, the run goes past it and still emits the report; only a file that has a *)
(* language can halt the run.                                                   *)

C10_UnrecognizedNeverRead ==
    /\ pc = "failed" => TypeOf(idx) # 0
    /\ (pc = "loop" /\ idx <= Len(files) /\ TypeOf(idx) = 0) => ENABLED SkipFile
    /\ pc = "failed" => Unreadable # {}

C10_Witness ==
    /\ pc = "done"
    /\ Len(console) >= 2
    /\ \E i \in 1..Len(files) : ~files[i].readable /\ TypeOf(i) = 0

-----------------------------------------------------------------------------
(* C8: a path resolves to the first language, in the order C, C++, Javascript,  *)
(* C#, Java, Golang, Python, one of whose extensions the path's final suffix    *)
(* ends with, and to none when there is no such language; no path matches two   *)
(* languages, so the order of the registry does not change the result.          *)

Registered ==
    << [name |-> "C", extensions |-> { <<".", "c">> }],
       [name |-> "C++", extensions |-> { <<".", "c", "+", "+">>, <<".", "c", "p", "p">> }],
       [name |-> "Javascript", extensions |-> { <<".", "j", "s">> }],
       [name |-> "C#", extensions |-> { <<".", "c", "s">>, <<".", "c", "s", "x">> }],
       [name |-> "Java", extensions |-> { <<".", "j", "a", "v", "a">> }],
       [name |-> "Golang", extensions |-> { <<".", "g", "o">> }],
       [name |-> "Python", extensions |-> { <<".", "p", "y">>, <<".", "p", "y", "w">> }] >>

\* the entries one of whose extensions the final suffix of name ends with
Matching(name) ==
    { i \in 1..Len(Registered) :
        \E e \in Registered[i].extensions : EndsWithStr(PathSuffix(name), e) }

Reversed(s) == [i \in 1..Len(s) |-> s[Len(s) + 1 - i]]

\* the name of the language at place t of registry, "" for none
NameAt(registry, t) == IF t = 0 THEN "" ELSE registry[t].name

\* the loop has resolved the file at place 1 of the input
FirstFileResolved == pc \in {"lines", "rows", "done"} /\ Len(files) = 1

C8_FirstMatch ==
    FirstFileResolved =>
        LET name == files[1].name
            M == Matching(name)
        IN  /\ Cardinality(M) <= 1
            /\ NameAt(SUPPORTED_LANGUAGES, ftype)
                 = (IF M = {} THEN "" ELSE Registered[Min(M)].name)
            /\ NameAt(Reversed(SUPPORTED_LANGUAGES),
                      figure_out_file_type(name, Reversed(SUPPORTED_LANGUAGES)))
                 = NameAt(SUPPORTED_LANGUAGES, ftype)

C8_Witness ==
    /\ pc = "done"
    /\ files[1].name = <<"c", ".", "c", "s">>
    /\ NameAt(SUPPORTED_LANGUAGES, ftype) = "C#"

====
